---- MODULE Spec2Model ----
(***************************************************************************)
(* A model of the VidStream-Pro backend handlers: like toggles             *)
(* (like.controller), video handlers (video.controller), comment handlers  *)
(* (comment.controller) and playlist handlers (playlist.controller) over   *)
(* the document store.  A handler that awaits several store operations is  *)
(* a sequence of steps, one per await; requests of different clients       *)
(* interleave between the steps.                                           *)
(***************************************************************************)
EXTENDS Integers, Sequences, FiniteSets, TLC

\* ------------------------------------------------------------------------
\* The universe of the model
\* ------------------------------------------------------------------------

Null == "null"

\* An identifier that mongoose.Types.ObjectId.isValid rejects.
InvalidId == "bad"

Users == {"u1", "u2", "u3"}

\* The users who send like toggles.
LikeUsers == {"u1", "u2"}

VideoIds == {"v1", "v2"}

CommentIds == {"c1", "c2", "c3"}

TweetIds == {"t1", "t2"}

PlaylistIds == {"l1", "l2", "l3"}

Kinds == {"video", "comment", "tweet"}

\* The clients whose requests may be in flight at the same time.
Procs == {"p1", "p2"}

\* The _id of a like document is fresh: a value that no stored document
\* and no request in flight holds.  Identifiers are only compared, so the
\* fresh one is taken as the pair it was created for with the least serial
\* number that is free, out of MaxLikeSerial.
MaxLikeSerial == 3

LikeSerials == 1 .. MaxLikeSerial

\* getVideoById is not sent for a video that has MaxViews views.
MaxViews == 2

\* removeVideoFromPlaylist is not sent for a playlist whose version key is
\* MaxVersion.
MaxVersion == 2

\* An upload for a field of a video is not sent while the media service
\* stores MaxAssetSerial assets uploaded for it.
MaxAssetSerial == 2

AssetSerials == 1 .. MaxAssetSerial

NoLike == <<>>

VARIABLES
    videos,     \* the Video collection: _id -> document
    comments,   \* the Comment collection: _id -> document
    tweets,     \* the Tweet collection: the _ids of the stored tweets
    likes,      \* the Like collection: a set of documents
    playlists,  \* the Playlist collection: _id -> document
    userIdIsString, \* whether req.user._id is a string (else an ObjectId)
    cloud,      \* the media service: the public_ids of the assets it stores
    proc,       \* per client: the request in flight, its locals, its response
    snap,       \* history: the collections when the serial request began
    watch,      \* history: an observed toggle of a pair, for the next one on it
    flips       \* history: per observed pair, the parity of successful toggles

vars ==
    <<videos, comments, tweets, likes, playlists, userIdIsString, cloud, proc,
      snap, watch, flips>>

\* The collections that the like handlers leave alone, the media service
\* and the build.
others == <<videos, comments, tweets, playlists, userIdIsString, cloud>>

\* ------------------------------------------------------------------------
\* Strings: a string is a sequence of characters; a missing field is Null
\* ------------------------------------------------------------------------

Space == " "

RECURSIVE TrimStart(_)
TrimStart(str) ==
    IF str # <<>> /\ Head(str) = Space THEN TrimStart(Tail(str)) ELSE str

RECURSIVE TrimEnd(_)
TrimEnd(str) ==
    IF str # <<>> /\ str[Len(str)] = Space
    THEN TrimEnd(SubSeq(str, 1, Len(str) - 1))
    ELSE str

\* String.prototype.trim.
Trim(str) == TrimEnd(TrimStart(str))

\* !value: a missing value and the empty string are falsy.
Falsy(str) == str = Null \/ str = <<>>

\* The mutant of Blank: the value is tested as it is, not trimmed.
BlankUntrimmed(str) == str = Null \/ str = <<>>

\* !value?.trim(): missing, empty or only whitespace.
Blank(str) == str = Null \/ Trim(str) = <<>>

LowerCase(ch) == IF ch = "A" THEN "a" ELSE ch

\* {$regex: query, $options: "i"} for a query of plain characters: the
\* query occurs in the text, letter case ignored.
RegexMatchIgnoreCase(text, query) ==
    \E i \in 1 .. (Len(text) - Len(query) + 1) :
        \A j \in 1 .. Len(query) : LowerCase(text[i + j - 1]) = LowerCase(query[j])

\* The sequences that list each member of the set once.
Orderings(set) ==
    {f \in [1 .. Cardinality(set) -> set] :
        \A i, j \in 1 .. Cardinality(set) : i # j => f[i] # f[j]}

\* A value of req.query: missing, a text that is no number, or the text of
\* a number.
Missing == [kind |-> "missing", value |-> 0]

NonNumeric == [kind |-> "text", value |-> 0]

Numeric(n) == [kind |-> "number", value |-> n]

\* const {page = 1} = req.query; parseInt(page): the default for a missing
\* value, NaN for a text that is no number.
ParseInt(raw, default) ==
    [nan |-> raw.kind = "text",
     value |-> IF raw.kind = "number" THEN raw.value
               ELSE IF raw.kind = "missing" THEN default ELSE 0]

\* The page-th slice of limit documents of the pipeline's result.
PageOf(docs, page, limit) ==
    SubSeq(docs, (page - 1) * limit + 1,
           IF page * limit < Len(docs) THEN page * limit ELSE Len(docs))

\* Math.ceil(count / limit).
Ceiling(count, limit) == (count + limit - 1) \div limit

\* The page the plugin takes from options.page: parseInt(page || 1) || 1.
PluginPage(number) == IF number.nan \/ number.value = 0 THEN 1 ELSE number.value

\* The limit the plugin takes from options.limit: it when it is above 0,
\* else the plugin's default of 10.
PluginLimit(number) == IF ~number.nan /\ number.value > 0 THEN number.value ELSE 10

\* Model.aggregatePaginate(aggregate, {page, limit}) of the
\* mongoose-aggregate-paginate-v2 plugin: the slice, the count of the
\* pipeline's result and the pages, Math.ceil(count / limit) || 1.
AggregatePaginate(docs, pageNumber, limitNumber) ==
    LET page == PluginPage(pageNumber)
        limit == PluginLimit(limitNumber)
        count == Len(docs)
    IN  [docs |-> PageOf(docs, page, limit), totalDocs |-> count, limit |-> limit,
         page |-> page,
         totalPages |-> IF count = 0 THEN 1 ELSE Ceiling(count, limit)]

\* ------------------------------------------------------------------------
\* The Like collection (like.model)
\* ------------------------------------------------------------------------

\* A like document: exactly one of video, comment, tweet is set by the
\* toggle that creates it; the other two are missing.
LikeDoc(id, kind, target, user) ==
    [_id |-> id,
     video |-> IF kind = "video" THEN target ELSE Null,
     comment |-> IF kind = "comment" THEN target ELSE Null,
     tweet |-> IF kind = "tweet" THEN target ELSE Null,
     likedBy |-> user]

\* The field of a like document that refers to a target of the kind.
TargetOf(doc, kind) ==
    CASE kind = "video" -> doc.video
      [] kind = "comment" -> doc.comment
      [] OTHER -> doc.tweet

\* The mutant of DuplicateKey: the index is declared without unique.
DuplicateKeyNotUnique(doc, coll) == FALSE

\* likeSchema.index({video: 1, likedBy: 1}, {unique: true}): the key of a
\* document is (video, likedBy), a missing video being indexed as null.
DuplicateKey(doc, coll) ==
    \E d \in coll : d.video = doc.video /\ d.likedBy = doc.likedBy

\* Like.findOne({<kind>: target, likedBy: user}): the documents it may return.
LikesOfPair(coll, kind, target, user) ==
    {d \in coll : TargetOf(d, kind) = target /\ d.likedBy = user}

\* Like.countDocuments({<kind>: target}).
CountLikes(coll, kind, target) ==
    Cardinality({d \in coll : TargetOf(d, kind) = target})

\* The state of the pair (target, likedBy).
Liked(coll, kind, target, user) == LikesOfPair(coll, kind, target, user) # {}

\* Whether the target of the kind is stored.
TargetExists(kind, target) ==
    CASE kind = "video" -> target \in DOMAIN videos
      [] kind = "comment" -> target \in DOMAIN comments
      [] OTHER -> target \in tweets

HeldLikeIds == {proc[p].existing : p \in Procs}

FreeLikeIds(kind, target, user) ==
    ({<<kind, target, user, n>> : n \in LikeSerials} \ {d._id : d \in likes})
        \ HeldLikeIds

\* ------------------------------------------------------------------------
\* Requests
\* ------------------------------------------------------------------------

\* The paging fields of a response that is no page of a listing.
NoPaging == [totalDocs |-> 0, totalPages |-> 0, page |-> 0, limit |-> 0]

NoResponse ==
    [status |-> 0, isLiked |-> FALSE, totalLikes |-> 0, items |-> <<>>,
     paging |-> NoPaging]

\* The collections as a request finds them.
Snapshot ==
    [likes |-> likes, videos |-> videos, comments |-> comments,
     playlists |-> playlists, cloud |-> cloud]

NoSnapshot ==
    [likes |-> {}, videos |-> <<>>, comments |-> <<>>, playlists |-> <<>>,
     cloud |-> {}]

NoWatch ==
    [user |-> Null, kind |-> Null, target |-> Null, preLiked |-> FALSE,
     preCount |-> 0, calls |-> 0]

\* The pair (video v1, user u1), whose successful toggles are counted.
ObservedPairs == {<<"video", "v1", "u1">>}

PairOf(p) == <<proc[p].kind, proc[p].target, proc[p].user>>

Idle ==
    [pc |-> "idle", op |-> Null, user |-> Null, kind |-> Null, target |-> Null,
     existing |-> NoLike, arg |-> <<>>, media |-> <<>>, res |-> NoResponse]

AllIdle == \A p \in Procs : proc[p].pc = "idle"

Respond(p, status, isLiked, total) ==
    proc' = [proc EXCEPT ![p].pc = "done",
                         ![p].res = [NoResponse EXCEPT !.status = status,
                                                       !.isLiked = isLiked,
                                                       !.totalLikes = total]]

\* The response has been sent: the client may send its next request.
Return(p) ==
    /\ proc[p].pc = "done"
    /\ proc' = [proc EXCEPT ![p] = Idle]
    /\ snap' = NoSnapshot
    /\ watch' = IF watch.calls = 2 THEN NoWatch ELSE watch
    /\ UNCHANGED <<likes, others, flips>>

\* ------------------------------------------------------------------------
\* toggleVideoLike, toggleCommentLike, toggleTweetLike (like.controller)
\* The three handlers are the same code over the field named by the kind.
\* ------------------------------------------------------------------------

\* The request arrives; the identifier is validated before any query.
ToggleLikeBegin(p, user, kind, target) ==
    /\ proc[p].pc = "idle"
    /\ IF target = InvalidId
       THEN proc' = [proc EXCEPT ![p] =
                [Idle EXCEPT !.pc = "done", !.op = "toggleLike", !.user = user,
                             !.kind = kind, !.target = target,
                             !.res = [NoResponse EXCEPT !.status = 400]]]
       ELSE proc' = [proc EXCEPT ![p] =
                [Idle EXCEPT !.pc = "findTarget", !.op = "toggleLike",
                             !.user = user, !.kind = kind, !.target = target]]
    /\ UNCHANGED <<likes, others>>

\* The mutant of ToggleLikeFindTarget: the result of the lookup is not tested.
ToggleLikeFindTargetUnchecked(p) ==
    /\ proc[p].pc = "findTarget"
    /\ proc' = [proc EXCEPT ![p].pc = "findLike"]
    /\ UNCHANGED <<likes, others, snap, watch, flips>>

\* await <Model>.findById(id).select("_id"); 404 when it is not stored.
ToggleLikeFindTarget(p) ==
    /\ proc[p].pc = "findTarget"
    /\ IF TargetExists(proc[p].kind, proc[p].target)
       THEN proc' = [proc EXCEPT ![p].pc = "findLike"]
       ELSE Respond(p, 404, FALSE, 0)
    /\ UNCHANGED <<likes, others, snap, watch, flips>>

\* await Like.findOne({<kind>: id, likedBy: req.user._id}).
ToggleLikeFindLike(p) ==
    /\ proc[p].pc = "findLike"
    /\ LET found == LikesOfPair(likes, proc[p].kind, proc[p].target, proc[p].user)
       IN  IF found = {}
           THEN proc' = [proc EXCEPT ![p].pc = "create"]
           ELSE \E d \in found :
                    proc' = [proc EXCEPT ![p].pc = "delete", ![p].existing = d._id]
    /\ UNCHANGED <<likes, others, snap, watch, flips>>

\* await Like.deleteOne({_id: existingLike._id}): deletes the document when
\* it is still stored, and nothing otherwise; neither is an error.
ToggleLikeDelete(p) ==
    /\ proc[p].pc = "delete"
    /\ likes' = {d \in likes : d._id # proc[p].existing}
    /\ proc' = [proc EXCEPT ![p].pc = "countUnliked", ![p].existing = NoLike]
    /\ UNCHANGED <<others, snap, watch, flips>>

\* await Like.create({<kind>: id, likedBy: req.user._id}): the store rejects
\* a duplicate key of the unique index; the handler has no catch, so the
\* rejection reaches the error middleware as a server error.
ToggleLikeCreate(p) ==
    /\ proc[p].pc = "create"
    /\ FreeLikeIds(proc[p].kind, proc[p].target, proc[p].user) # {}
    /\ LET free == FreeLikeIds(proc[p].kind, proc[p].target, proc[p].user)
           id == CHOOSE i \in free : \A j \in free : i[4] <= j[4]
           doc == LikeDoc(id, proc[p].kind, proc[p].target, proc[p].user)
       IN  IF DuplicateKey(doc, likes)
           THEN /\ Respond(p, 500, FALSE, 0)
                /\ UNCHANGED likes
           ELSE /\ likes' = likes \cup {doc}
                /\ proc' = [proc EXCEPT ![p].pc = "countLiked"]
    /\ UNCHANGED <<others, snap, watch, flips>>

\* await Like.countDocuments({<kind>: id}) and the response.
ToggleLikeCount(p) ==
    /\ proc[p].pc \in {"countUnliked", "countLiked"}
    /\ Respond(p, 200, proc[p].pc = "countLiked",
               CountLikes(likes, proc[p].kind, proc[p].target))
    /\ flips' = IF PairOf(p) \in DOMAIN flips
                THEN [flips EXCEPT ![PairOf(p)] = 1 - @]
                ELSE flips
    /\ UNCHANGED <<likes, others, snap, watch>>

toggleVideoLike(p, user, videoId) ==
    /\ ToggleLikeBegin(p, user, "video", videoId)
    /\ UNCHANGED <<snap, watch, flips>>

toggleCommentLike(p, user, commentId) ==
    /\ ToggleLikeBegin(p, user, "comment", commentId)
    /\ UNCHANGED <<snap, watch, flips>>

toggleTweetLike(p, user, tweetId) ==
    /\ ToggleLikeBegin(p, user, "tweet", tweetId)
    /\ UNCHANGED <<snap, watch, flips>>

ToggleLikeStep(p) ==
    \/ ToggleLikeFindTarget(p)
    \/ ToggleLikeFindLike(p)
    \/ ToggleLikeDelete(p)
    \/ ToggleLikeCreate(p)
    \/ ToggleLikeCount(p)

\* A toggle sent while no other request is in flight.  The history records
\* the Like collection as the request found it and, when it observes, the
\* state of the pair before the first of two successive toggles of the pair.
SerialToggle(p, user, kind, target, observe) ==
    /\ AllIdle
    /\ ToggleLikeBegin(p, user, kind, target)
    /\ snap' = Snapshot
    /\ watch' =
          IF watch.calls = 1 /\ watch.kind = kind /\ watch.target = target
          THEN IF watch.user = user THEN [watch EXCEPT !.calls = 2] ELSE NoWatch
          ELSE IF watch.calls = 0 /\ observe /\ TargetExists(kind, target)
               THEN [user |-> user, kind |-> kind, target |-> target,
                     preLiked |-> Liked(likes, kind, target, user),
                     preCount |-> CountLikes(likes, kind, target), calls |-> 1]
               ELSE watch
    /\ UNCHANGED flips

\* ------------------------------------------------------------------------
\* The like toggles under concurrent clients, and under one client
\* ------------------------------------------------------------------------

VideoDoc(owner, title, description, isPublished, views, createdAt, videoFile, thumbnail) ==
    [owner |-> owner, title |-> title, description |-> description,
     isPublished |-> isPublished, views |-> views, createdAt |-> createdAt,
     videoFile |-> videoFile, thumbnail |-> thumbnail]

\* The public_id of an asset: identifiers are only compared, so the one an
\* upload returns is taken as the field and the video it is uploaded for
\* with the least serial number that the media service does not store.
AssetId(field, videoId, n) == <<field, videoId, n>>

FreeAssetSerials(field, videoId) ==
    {n \in AssetSerials : AssetId(field, videoId, n) \notin cloud}

FreshAsset(field, videoId) ==
    LET free == FreeAssetSerials(field, videoId)
    IN  AssetId(field, videoId, CHOOSE n \in free : \A m \in free : n <= m)

\* The assets that the documents of the collection refer to.
AssetsOf(coll) ==
    UNION {{coll[v].videoFile, coll[v].thumbnail} : v \in DOMAIN coll}

\* The video v1 of user u1 that the stores of the like, comment and
\* playlist handlers start with.
StoredVideo(owner, videoId) ==
    VideoDoc(owner, <<"a">>, <<"a">>, TRUE, 0, 1, AssetId("videoFile", videoId, 1),
             AssetId("thumbnail", videoId, 1))

CommentDoc(owner, video, content) ==
    [owner |-> owner, video |-> video, content |-> content]

\* A store with one video, two comments on it and one tweet, and no like.
\* The like handlers hand req.user._id to queries only, which cast it.
InitLikes ==
    /\ videos = [v \in {"v1"} |-> StoredVideo("u1", v)]
    /\ comments = [c \in {"c1", "c2"} |-> CommentDoc("u2", "v1", <<"a">>)]
    /\ tweets = {"t1"}
    /\ likes = {}
    /\ playlists = <<>>
    /\ userIdIsString = FALSE
    /\ cloud = AssetsOf(videos)
    /\ proc = [p \in Procs |-> Idle]
    /\ snap = NoSnapshot
    /\ watch = NoWatch
    /\ flips = [pr \in ObservedPairs |-> 0]

NextLikes ==
    \E p \in Procs :
        \/ \E u \in LikeUsers, v \in {"v1"} : toggleVideoLike(p, u, v)
        \/ \E u \in LikeUsers, c \in {"c1"} : toggleCommentLike(p, u, c)
        \/ \E u \in LikeUsers, t \in {"t1"} : toggleTweetLike(p, u, t)
        \/ ToggleLikeStep(p)
        \/ Return(p)

SpecLikes == InitLikes /\ [][NextLikes]_vars

IdsOfKind(kind) ==
    CASE kind = "video" -> VideoIds
      [] kind = "comment" -> CommentIds
      [] OTHER -> TweetIds

NextLikesSerial ==
    \/ \E u \in LikeUsers, k \in Kinds, observe \in BOOLEAN :
          \E t \in IdsOfKind(k) \cup {InvalidId} : SerialToggle("p1", u, k, t, observe)
    \/ ToggleLikeStep("p1")
    \/ Return("p1")

SpecLikesSerial == InitLikes /\ [][NextLikesSerial]_vars

\* ------------------------------------------------------------------------
\* Serial requests: a handler run from its start to its response while no
\* other request is in flight
\* ------------------------------------------------------------------------

\* The response of a handler that ran as a whole and made the calls to the
\* media service.
AnswerMedia(p, op, user, kind, target, arg, status, items, calls) ==
    /\ proc' = [proc EXCEPT ![p] =
            [Idle EXCEPT !.pc = "done", !.op = op, !.user = user, !.kind = kind,
                         !.target = target, !.arg = arg, !.media = calls,
                         !.res = [NoResponse EXCEPT !.status = status,
                                                    !.items = items]]]
    /\ snap' = Snapshot
    /\ UNCHANGED <<watch, flips, userIdIsString>>

\* The response of a handler that ran as a whole and does not call the
\* media service.
Answer(p, op, user, kind, target, arg, status, items) ==
    /\ AnswerMedia(p, op, user, kind, target, arg, status, items, <<>>)
    /\ UNCHANGED cloud

\* The response of a listing handler: 200 with the page that the plugin made
\* of the pipeline's result, or the error.  The request keeps the values of
\* page and limit as sent and, as history, the pipeline's result.
AnswerListing(p, op, user, target, page, limit, status, pipelineResult) ==
    LET result == AggregatePaginate(pipelineResult, ParseInt(page, 1),
                                    ParseInt(limit, 10))
    IN  /\ proc' = [proc EXCEPT ![p] =
                [Idle EXCEPT
                   !.pc = "done", !.op = op, !.user = user, !.kind = "video",
                   !.target = target, !.arg = <<page, limit, pipelineResult>>,
                   !.res = IF status = 200
                           THEN [NoResponse EXCEPT
                                   !.status = 200, !.items = result.docs,
                                   !.paging = [totalDocs |-> result.totalDocs,
                                               totalPages |-> result.totalPages,
                                               page |-> result.page,
                                               limit |-> result.limit]]
                           ELSE [NoResponse EXCEPT !.status = status]]]
        /\ snap' = Snapshot
        /\ UNCHANGED <<watch, flips, userIdIsString, cloud>>

\* A fresh identifier: the first of the sequence that the collection does
\* not use.
FreshId(ids, coll) ==
    LET free == {i \in 1 .. Len(ids) : ids[i] \notin DOMAIN coll}
    IN  ids[CHOOSE i \in free : \A j \in free : i <= j]

\* The collection with a document added under the identifier.
Insert(coll, id, doc) == [i \in DOMAIN coll \cup {id} |-> IF i = id THEN doc ELSE coll[i]]

\* The collection without the document of the identifier.
Remove(coll, id) == [i \in DOMAIN coll \ {id} |-> coll[i]]

\* ------------------------------------------------------------------------
\* addComment, updateComment, deleteComment (comment.controller)
\* ------------------------------------------------------------------------

addComment(p, user, videoId, content) ==
    /\ AllIdle
    /\ CommentIds \ DOMAIN comments # {}
    /\ LET status ==
               CASE videoId = InvalidId -> 400
                 [] Blank(content) -> 400
                 [] videoId \notin DOMAIN videos -> 404
                 [] OTHER -> 201
           id == FreshId(<<"c1", "c2", "c3">>, comments)
       IN  /\ comments' = IF status = 201
                          THEN Insert(comments, id, CommentDoc(user, videoId, content))
                          ELSE comments
           /\ Answer(p, "addComment", user, "comment",
                     IF status = 201 THEN id ELSE Null, <<content>>, status, <<>>)
    /\ UNCHANGED <<videos, tweets, likes, playlists>>

\* Comment.findOneAndUpdate({_id: commentId, owner: req.user._id}, ...).
updateComment(p, user, commentId, newContent) ==
    /\ AllIdle
    /\ LET status ==
               CASE commentId = InvalidId -> 400
                 [] Blank(newContent) -> 400
                 [] commentId \notin DOMAIN comments -> 404
                 [] comments[commentId].owner # user -> 404
                 [] OTHER -> 200
       IN  /\ comments' = IF status = 200
                          THEN [comments EXCEPT ![commentId].content = newContent]
                          ELSE comments
           /\ Answer(p, "updateComment", user, "comment", commentId,
                     <<newContent>>, status, <<>>)
    /\ UNCHANGED <<videos, tweets, likes, playlists>>

\* owner.toString() !== req.user._id: a string is strictly unequal to every
\* ObjectId; two strings are compared by value.
StrictlyUnequalUserId(ownerString, user) ==
    IF userIdIsString THEN ownerString # user ELSE TRUE

\* deleteComment: Comment.findById(commentId).populate("video", "owner")
\* leaves comment.video null when the video is no longer stored, and reading
\* comment.video.owner then throws.  The second operand of && is evaluated
\* only when the first holds.
deleteComment(p, user, commentId) ==
    /\ AllIdle
    /\ LET status ==
               IF commentId = InvalidId THEN 400
               ELSE IF commentId \notin DOMAIN comments THEN 404
               ELSE LET comment == comments[commentId]
                    IN  IF ~StrictlyUnequalUserId(comment.owner, user) THEN 200
                        ELSE IF comment.video \notin DOMAIN videos THEN 500
                        ELSE IF StrictlyUnequalUserId(videos[comment.video].owner, user)
                             THEN 403
                             ELSE 200
       IN  /\ comments' = IF status = 200 THEN Remove(comments, commentId)
                          ELSE comments
           /\ Answer(p, "deleteComment", user, "comment", commentId, <<>>,
                     status, <<>>)
    /\ UNCHANGED <<videos, tweets, likes, playlists>>

\* ------------------------------------------------------------------------
\* deleteVideo (video.controller): the comments and likes of the video stay
\* ------------------------------------------------------------------------

\* The mutant of NotOwner: every requester passes the owner check.
NotOwnerNever(doc, user) == FALSE

\* doc.owner.toString() !== req.user._id.toString().
NotOwner(doc, user) == doc.owner # user

\* await uploadOnCloudinary(path) that succeeds, for the field of the video.
UploadCall(field, videoId) == <<"upload", FreshAsset(field, videoId)>>

\* await uploadOnCloudinary(path) that returns null.
UploadFailedCall == <<"uploadFailed", <<>>>>

\* await deleteOnCloudinary(public_id).
DeleteCall(asset) == <<"delete", asset>>

deleteVideo(p, user, videoId) ==
    /\ AllIdle
    /\ LET status ==
               CASE videoId = InvalidId -> 400
                 [] videoId \notin DOMAIN videos -> 404
                 [] NotOwner(videos[videoId], user) -> 403
                 [] OTHER -> 200
           video == videos[videoId]
       IN  /\ videos' = IF status = 200 THEN Remove(videos, videoId) ELSE videos
           /\ cloud' = IF status = 200
                        THEN cloud \ {video.thumbnail, video.videoFile}
                        ELSE cloud
           /\ AnswerMedia(p, "deleteVideo", user, "video", videoId, <<>>, status,
                          <<>>,
                          IF status = 200
                          THEN <<DeleteCall(video.thumbnail),
                                 DeleteCall(video.videoFile)>>
                          ELSE <<>>)
    /\ UNCHANGED <<comments, tweets, likes, playlists>>

\* ------------------------------------------------------------------------
\* getAllVideos, publishAVideo, getVideoById, updateVideo,
\* togglePublishStatus (video.controller)
\* ------------------------------------------------------------------------

\* The mutant of ListingMatch: the publication flag is left out of $match.
ListingMatchAnyFlag(doc, query, userId) ==
    /\ (~Falsy(query) => RegexMatchIgnoreCase(doc.title, query))
    /\ (userId # Null => doc.owner = userId)

\* The $match stage of getAllVideos: published, and the title and the owner
\* as far as the request names them.
ListingMatch(doc, query, userId) ==
    /\ doc.isPublished
    /\ (~Falsy(query) => RegexMatchIgnoreCase(doc.title, query))
    /\ (userId # Null => doc.owner = userId)

\* The field a listing is sorted by and its direction: sortOptions.
SortKey(doc, sortBy, sortType) ==
    LET value == IF sortBy = "views" THEN doc.views ELSE doc.createdAt
        direction == IF sortBy = Null THEN -1
                     ELSE IF sortType = "asc" THEN 1 ELSE -1
    IN  direction * value

\* The orders the $sort stage may give the documents: ascending in the key,
\* documents of equal keys in any order.
SortedBy(ids, sortBy, sortType) ==
    {f \in Orderings(ids) :
        \A i, j \in 1 .. Len(f) :
            i < j => SortKey(videos[f[i]], sortBy, sortType)
                         <= SortKey(videos[f[j]], sortBy, sortType)}

\* mongoose.Types.ObjectId(userId) is called without new: a build whose
\* ObjectId is a class throws there (castThrows), an older one casts.
getAllVideos(p, query, sortBy, sortType, userId, page, limit, castThrows) ==
    /\ AllIdle
    /\ LET matched == {v \in DOMAIN videos : ListingMatch(videos[v], query, userId)}
       IN  IF userId = InvalidId
           THEN AnswerListing(p, "getAllVideos", Null, userId, page, limit, 400, <<>>)
           ELSE IF userId # Null /\ castThrows
           THEN AnswerListing(p, "getAllVideos", Null, userId, page, limit, 500, <<>>)
           ELSE \E sorted \in SortedBy(matched, sortBy, sortType) :
                    AnswerListing(p, "getAllVideos", Null, userId, page, limit, 200,
                                  sorted)
    /\ UNCHANGED <<videos, comments, tweets, likes, playlists>>

\* A value of req.body that is no string: the array of a repeated field,
\* written as the sequence that holds the mark of an array.  It is truthy.
NotAString == <<"array">>

\* Video.create({title, description, ...}) validates the document against
\* the schema: a title or description that is no string is rejected.
VideoCreateRejected(title, description) ==
    title = NotAString \/ description = NotAString

\* Video.create leaves isPublished to the schema's default, which is not
\* part of the handler: either value.  The rejection of Video.create leaves
\* the handler as it is thrown: no line of it runs after line 119.
publishAVideo(p, user, title, description, files, videoUploaded, thumbnailUploaded, isPublished) ==
    /\ AllIdle
    /\ VideoIds \ DOMAIN videos # {}
    /\ LET id == FreshId(<<"v1", "v2">>, videos)
           status ==
               CASE Falsy(title) \/ Falsy(description) -> 400
                 [] ~files -> 400
                 [] ~videoUploaded -> 500
                 [] ~thumbnailUploaded -> 500
                 [] VideoCreateRejected(title, description) -> 500
                 [] OTHER -> 201
           uploadsVideo == ~(Falsy(title) \/ Falsy(description)) /\ files
           uploadedVideo == FreshAsset("videoFile", id)
           uploadedThumbnail == FreshAsset("thumbnail", id)
       IN  /\ uploadsVideo =>
                  /\ FreeAssetSerials("videoFile", id) # {}
                  /\ FreeAssetSerials("thumbnail", id) # {}
           /\ videos' = IF status = 201
                        THEN Insert(videos, id,
                                    VideoDoc(user, title, description, isPublished,
                                             0, Cardinality(DOMAIN videos) + 1,
                                             uploadedVideo, uploadedThumbnail))
                        ELSE videos
           /\ cloud' = IF uploadsVideo /\ videoUploaded /\ thumbnailUploaded
                        THEN cloud \cup {uploadedVideo, uploadedThumbnail}
                        ELSE cloud
           /\ AnswerMedia(p, "publishAVideo", user, "video",
                          IF status = 201 THEN id ELSE Null, <<>>, status, <<>>,
                          IF ~uploadsVideo THEN <<>>
                          ELSE IF ~videoUploaded THEN <<UploadFailedCall>>
                          ELSE IF ~thumbnailUploaded
                          THEN <<UploadCall("videoFile", id), UploadFailedCall,
                                 DeleteCall(uploadedVideo)>>
                          ELSE <<UploadCall("videoFile", id),
                                 UploadCall("thumbnail", id)>>)
    /\ UNCHANGED <<comments, tweets, likes, playlists>>

\* The request arrives; the identifier is validated before the query.
getVideoById(p, videoId) ==
    /\ AllIdle
    /\ videoId \in DOMAIN videos => videos[videoId].views < MaxViews
    /\ proc' = [proc EXCEPT ![p] =
            IF videoId = InvalidId
            THEN [Idle EXCEPT !.pc = "done", !.op = "getVideoById",
                              !.kind = "video", !.target = videoId,
                              !.res = [NoResponse EXCEPT !.status = 400]]
            ELSE [Idle EXCEPT !.pc = "findVideo", !.op = "getVideoById",
                              !.kind = "video", !.target = videoId]]
    /\ snap' = Snapshot
    /\ UNCHANGED <<likes, others, watch, flips>>

\* await Video.findById(videoId): 404 when it is not stored or not
\* published; otherwise video.views += 1 on the document that was read.
GetVideoByIdFind(p) ==
    /\ proc[p].pc = "findVideo"
    /\ IF proc[p].target \in DOMAIN videos /\ videos[proc[p].target].isPublished
       THEN proc' = [proc EXCEPT ![p].pc = "saveVideo",
                                 ![p].arg = <<videos[proc[p].target].views + 1>>]
       ELSE Respond(p, 404, FALSE, 0)
    /\ UNCHANGED <<likes, others, snap, watch, flips>>

\* await video.save(): writes the modified path, views; the save of a
\* document that is no longer stored fails.
GetVideoByIdSave(p) ==
    /\ proc[p].pc = "saveVideo"
    /\ IF proc[p].target \in DOMAIN videos
       THEN /\ videos' = [videos EXCEPT ![proc[p].target].views = proc[p].arg[1]]
            /\ proc' = [proc EXCEPT ![p].pc = "done",
                            ![p].res = [NoResponse EXCEPT !.status = 200,
                                            !.items = <<proc[p].target>>]]
       ELSE /\ Respond(p, 500, FALSE, 0)
            /\ UNCHANGED videos
    /\ UNCHANGED <<likes, comments, tweets, playlists, userIdIsString, cloud,
                   snap, watch, flips>>

\* thumbnail: "none" when the request has no file, else whether its upload
\* succeeds ("ok") or fails ("fail").
updateVideo(p, user, videoId, title, description, thumbnail) ==
    /\ AllIdle
    /\ LET status ==
               CASE videoId = InvalidId -> 400
                 [] videoId \notin DOMAIN videos -> 404
                 [] NotOwner(videos[videoId], user) -> 403
                 [] Falsy(title) /\ Falsy(description) /\ thumbnail = "none" -> 400
                 [] thumbnail = "fail" -> 500
                 [] OTHER -> 200
           uploaded == FreshAsset("thumbnail", videoId)
           replaces == status = 200 /\ thumbnail = "ok"
       IN  /\ replaces => FreeAssetSerials("thumbnail", videoId) # {}
           /\ videos' =
                 IF status = 200
                 THEN [videos EXCEPT
                         ![videoId].title = IF Falsy(title) THEN @ ELSE title,
                         ![videoId].description =
                             IF Falsy(description) THEN @ ELSE description,
                         ![videoId].thumbnail = IF replaces THEN uploaded ELSE @]
                 ELSE videos
           /\ cloud' = IF replaces
                        THEN (cloud \cup {uploaded}) \ {videos[videoId].thumbnail}
                        ELSE cloud
           /\ AnswerMedia(p, "updateVideo", user, "video", videoId, <<>>, status,
                          <<>>,
                          IF replaces
                          THEN <<UploadCall("thumbnail", videoId),
                                 DeleteCall(videos[videoId].thumbnail)>>
                          ELSE IF status = 500 THEN <<UploadFailedCall>>
                          ELSE <<>>)
    /\ UNCHANGED <<comments, tweets, likes, playlists>>

togglePublishStatus(p, user, videoId) ==
    /\ AllIdle
    /\ LET status ==
               CASE videoId = InvalidId -> 400
                 [] videoId \notin DOMAIN videos -> 404
                 [] NotOwner(videos[videoId], user) -> 403
                 [] OTHER -> 200
       IN  /\ videos' = IF status = 200
                        THEN [videos EXCEPT ![videoId].isPublished = ~@]
                        ELSE videos
           /\ Answer(p, "togglePublishStatus", user, "video", videoId, <<>>,
                     status, <<>>)
    /\ UNCHANGED <<comments, tweets, likes, playlists>>

\* ------------------------------------------------------------------------
\* getLikedVideos (like.controller)
\* ------------------------------------------------------------------------

\* The pipeline of getLikedVideos: the user's likes of videos, joined with
\* the stored videos ($unwind drops a like whose video is gone), the
\* published ones kept.  The likes' creation times are not recorded: the
\* $sort stage may give any order.
getLikedVideos(p, user, page, limit) ==
    /\ AllIdle
    /\ LET liked == {d \in likes : d.likedBy = user /\ d.video # Null}
           joined == {d \in liked : d.video \in DOMAIN videos}
           kept == {d.video : d \in {e \in joined : videos[e.video].isPublished}}
       IN  \E sorted \in Orderings(kept) :
               AnswerListing(p, "getLikedVideos", user, Null, page, limit, 200,
                             sorted)
    /\ UNCHANGED <<videos, comments, tweets, likes, playlists>>

\* ------------------------------------------------------------------------
\* The video handlers and the likes of videos, one request at a time
\* ------------------------------------------------------------------------

InitVideos ==
    /\ videos = <<>>
    /\ comments = <<>>
    /\ tweets = {}
    /\ likes = {}
    /\ playlists = <<>>
    /\ userIdIsString = FALSE
    /\ cloud = AssetsOf(videos)
    /\ proc = [p \in Procs |-> Idle]
    /\ snap = NoSnapshot
    /\ watch = NoWatch
    /\ flips = <<>>

NextVideos ==
    \/ \E u \in {"u1", "u2"}, t \in {Null, <<"a">>}, d \in {Null, <<"a">>},
          files \in BOOLEAN, videoUploaded \in BOOLEAN,
          thumbnailUploaded \in BOOLEAN, isPublished \in BOOLEAN :
          publishAVideo("p1", u, t, d, files, videoUploaded, thumbnailUploaded,
                        isPublished)
    \/ \E u \in {"u1", "u2"}, v \in {"v1", "v2", InvalidId} :
          togglePublishStatus("p1", u, v)
    \/ \E u \in {"u1", "u2"}, v \in {"v1", "v2", InvalidId},
          t \in {Null, <<"A", "b">>}, d \in {Null, <<"a">>},
          thumbnail \in {"none", "fail"} :
          updateVideo("p1", u, v, t, d, thumbnail)
    \/ \E v \in {"v1", "v2"} : SerialToggle("p1", "u1", "video", v, FALSE)
    \/ ToggleLikeStep("p1")
    \/ \E q \in {Null, <<"a">>, <<"b">>},
          sort \in {<<Null, Null>>, <<"views", "asc">>, <<"views", "desc">>},
          owner \in {<<Null, FALSE>>, <<"u1", FALSE>>, <<"u1", TRUE>>,
                     <<InvalidId, FALSE>>},
          page \in {Numeric(1), Numeric(2)}, limit \in {Numeric(1), Numeric(10)} :
          getAllVideos("p1", q, sort[1], sort[2], owner[1], page, limit, owner[2])
    \/ \E v \in {"v1", "v2", InvalidId} : getVideoById("p1", v)
    \/ GetVideoByIdFind("p1")
    \/ GetVideoByIdSave("p1")
    \/ \E page \in {Numeric(1), Numeric(2)}, limit \in {Numeric(1), Numeric(10)} :
          getLikedVideos("p1", "u1", page, limit)
    \/ Return("p1")

SpecVideos == InitVideos /\ [][NextVideos]_vars

\* ------------------------------------------------------------------------
\* getVideoById, togglePublishStatus and updateVideo under concurrent
\* clients: each await is a step
\* ------------------------------------------------------------------------

\* A request of the client for the video, arrived and validated.
VideoRequest(p, op, user, videoId, arg, next) ==
    /\ proc[p].pc = "idle"
    /\ proc' = [proc EXCEPT ![p] =
            IF videoId = InvalidId
            THEN [Idle EXCEPT !.pc = "done", !.op = op, !.user = user,
                              !.kind = "video", !.target = videoId, !.arg = arg,
                              !.res = [NoResponse EXCEPT !.status = 400]]
            ELSE [Idle EXCEPT !.pc = next, !.op = op, !.user = user,
                              !.kind = "video", !.target = videoId, !.arg = arg]]
    /\ UNCHANGED <<likes, others, snap, watch, flips>>

\* getVideoById arrives while other requests may be in flight.
GetVideoByIdBegin(p, videoId) ==
    /\ videoId \in DOMAIN videos => videos[videoId].views < MaxViews
    /\ VideoRequest(p, "getVideoById", Null, videoId, <<>>, "findVideo")

TogglePublishStatusBegin(p, user, videoId) ==
    VideoRequest(p, "togglePublishStatus", user, videoId, <<>>, "toggleFind")

\* await Video.findById(videoId): 404, 403; else video.isPublished is set
\* to the opposite of the flag that was read.
TogglePublishStatusFind(p) ==
    /\ proc[p].pc = "toggleFind"
    /\ IF proc[p].target \notin DOMAIN videos
       THEN Respond(p, 404, FALSE, 0)
       ELSE IF NotOwner(videos[proc[p].target], proc[p].user)
       THEN Respond(p, 403, FALSE, 0)
       ELSE proc' = [proc EXCEPT ![p].pc = "toggleSave",
                         ![p].arg = <<~videos[proc[p].target].isPublished>>]
    /\ UNCHANGED <<likes, others, snap, watch, flips>>

\* await video.save(): writes the modified path, isPublished; the save of a
\* document that is no longer stored fails.
TogglePublishStatusSave(p) ==
    /\ proc[p].pc = "toggleSave"
    /\ IF proc[p].target \in DOMAIN videos
       THEN /\ videos' = [videos EXCEPT ![proc[p].target].isPublished = proc[p].arg[1]]
            /\ Respond(p, 200, FALSE, 0)
       ELSE /\ Respond(p, 500, FALSE, 0)
            /\ UNCHANGED videos
    /\ UNCHANGED <<likes, comments, tweets, playlists, userIdIsString, cloud,
                   snap, watch, flips>>

\* updateVideo of the title or the description, with no thumbnail file.
UpdateVideoBegin(p, user, videoId, title, description) ==
    VideoRequest(p, "updateVideo", user, videoId, <<title, description>>,
                 "updateFind")

\* await Video.findById(videoId): 404, 403, 400 when nothing is to update;
\* else the title and the description that are sent are assigned.
UpdateVideoFind(p) ==
    /\ proc[p].pc = "updateFind"
    /\ IF proc[p].target \notin DOMAIN videos
       THEN Respond(p, 404, FALSE, 0)
       ELSE IF NotOwner(videos[proc[p].target], proc[p].user)
       THEN Respond(p, 403, FALSE, 0)
       ELSE IF Falsy(proc[p].arg[1]) /\ Falsy(proc[p].arg[2])
       THEN Respond(p, 400, FALSE, 0)
       ELSE proc' = [proc EXCEPT ![p].pc = "updateSave"]
    /\ UNCHANGED <<likes, others, snap, watch, flips>>

\* await video.save(): writes the modified paths, title and description as
\* far as they were assigned.
UpdateVideoSave(p) ==
    /\ proc[p].pc = "updateSave"
    /\ IF proc[p].target \in DOMAIN videos
       THEN /\ videos' = [videos EXCEPT
                             ![proc[p].target].title =
                                 IF Falsy(proc[p].arg[1]) THEN @ ELSE proc[p].arg[1],
                             ![proc[p].target].description =
                                 IF Falsy(proc[p].arg[2]) THEN @ ELSE proc[p].arg[2]]
            /\ Respond(p, 200, FALSE, 0)
       ELSE /\ Respond(p, 500, FALSE, 0)
            /\ UNCHANGED videos
    /\ UNCHANGED <<likes, comments, tweets, playlists, userIdIsString, cloud,
                   snap, watch, flips>>

\* One published video of user u1.
InitViews ==
    /\ videos = [v \in {"v1"} |-> StoredVideo("u1", v)]
    /\ comments = <<>>
    /\ tweets = {}
    /\ likes = {}
    /\ playlists = <<>>
    /\ userIdIsString = FALSE
    /\ cloud = AssetsOf(videos)
    /\ proc = [p \in Procs |-> Idle]
    /\ snap = NoSnapshot
    /\ watch = NoWatch
    /\ flips = <<>>

NextViews ==
    \E p \in Procs :
        \/ \E v \in {"v1", "v2", InvalidId} : GetVideoByIdBegin(p, v)
        \/ GetVideoByIdFind(p)
        \/ GetVideoByIdSave(p)
        \/ \E u \in {"u1", "u2"}, v \in {"v1", InvalidId} :
              TogglePublishStatusBegin(p, u, v)
        \/ TogglePublishStatusFind(p)
        \/ TogglePublishStatusSave(p)
        \/ \E u \in {"u1", "u2"}, v \in {"v1", InvalidId},
              t \in {Null, <<"b">>}, d \in {Null, <<"b">>} :
              UpdateVideoBegin(p, u, v, t, d)
        \/ UpdateVideoFind(p)
        \/ UpdateVideoSave(p)
        \/ Return(p)

SpecViews == InitViews /\ [][NextViews]_vars

\* ------------------------------------------------------------------------
\* getVideoComments (comment.controller), and the listings one request at
\* a time
\* ------------------------------------------------------------------------

\* The pipeline matches {video: mongoose.Types.ObjectId(videoId)}: the call
\* is made without new, so a build whose ObjectId is a class throws there
\* (castThrows), an older one casts.  The comments' creation times are not
\* recorded: the $sort stage may give any order.
getVideoComments(p, videoId, page, limit, castThrows) ==
    /\ AllIdle
    /\ LET matched == {c \in DOMAIN comments : comments[c].video = videoId}
       IN  IF videoId = InvalidId
           THEN AnswerListing(p, "getVideoComments", Null, videoId, page, limit,
                              400, <<>>)
           ELSE IF castThrows
           THEN AnswerListing(p, "getVideoComments", Null, videoId, page, limit,
                              500, <<>>)
           ELSE \E sorted \in Orderings(matched) :
                    AnswerListing(p, "getVideoComments", Null, videoId, page,
                                  limit, 200, sorted)
    /\ UNCHANGED <<videos, comments, tweets, likes, playlists>>

Pages == {Missing, NonNumeric, Numeric(1), Numeric(2), Numeric(4)}

Limits == {Missing, NonNumeric, Numeric(1), Numeric(2)}

\* Two published videos of user u1, no comment and no like.
InitListings ==
    /\ videos = [v \in {"v1", "v2"} |-> StoredVideo("u1", v)]
    /\ comments = <<>>
    /\ tweets = {}
    /\ likes = {}
    /\ playlists = <<>>
    /\ userIdIsString = FALSE
    /\ cloud = AssetsOf(videos)
    /\ proc = [p \in Procs |-> Idle]
    /\ snap = NoSnapshot
    /\ watch = NoWatch
    /\ flips = <<>>

NextListings ==
    \/ addComment("p1", "u1", "v1", <<"a">>)
    \/ \E v \in {"v1", "v2"} : togglePublishStatus("p1", "u1", v)
    \/ \E v \in {"v1", "v2"} : SerialToggle("p1", "u1", "video", v, FALSE)
    \/ ToggleLikeStep("p1")
    \/ \E owner \in {<<Null, FALSE>>, <<"u1", FALSE>>, <<"u1", TRUE>>,
                     <<InvalidId, FALSE>>},
          page \in Pages, limit \in Limits :
          getAllVideos("p1", Null, Null, Null, owner[1], page, limit, owner[2])
    \/ \E v \in {"v1", "v2", InvalidId}, page \in Pages, limit \in Limits,
          castThrows \in BOOLEAN :
          getVideoComments("p1", v, page, limit, castThrows)
    \/ \E page \in Pages, limit \in Limits : getLikedVideos("p1", "u1", page, limit)
    \/ Return("p1")

SpecListings == InitListings /\ [][NextListings]_vars

\* ------------------------------------------------------------------------
\* The video handlers that call the media service, one request at a time
\* ------------------------------------------------------------------------

InitMedia == InitVideos

NextMedia ==
    \/ \E u \in {"u1", "u2"}, t \in {Null, <<"a">>, NotAString},
          d \in {Null, <<"a">>}, files \in BOOLEAN, videoUploaded \in BOOLEAN,
          thumbnailUploaded \in BOOLEAN, isPublished \in BOOLEAN :
          publishAVideo("p1", u, t, d, files, videoUploaded, thumbnailUploaded,
                        isPublished)
    \/ \E u \in {"u1", "u2"}, v \in {"v1", "v2", InvalidId} :
          togglePublishStatus("p1", u, v)
    \/ \E u \in {"u1", "u2"}, v \in {"v1", "v2", InvalidId},
          t \in {Null, <<"b">>}, d \in {Null, <<"b">>},
          thumbnail \in {"none", "ok", "fail"} :
          updateVideo("p1", u, v, t, d, thumbnail)
    \/ \E u \in {"u1", "u2"}, v \in {"v1", "v2", InvalidId} :
          deleteVideo("p1", u, v)
    \/ Return("p1")

SpecMedia == InitMedia /\ [][NextMedia]_vars

\* ------------------------------------------------------------------------
\* The comment handlers, one request at a time
\* ------------------------------------------------------------------------

CommentContents == {Null, <<Space>>, <<"a">>, <<Space, "a">>}

\* A store with one video of user u1; the auth middleware of the build sets
\* req.user._id to a string or to an ObjectId.
InitComments ==
    /\ videos = [v \in {"v1"} |-> StoredVideo("u1", v)]
    /\ comments = <<>>
    /\ tweets = {}
    /\ likes = {}
    /\ playlists = <<>>
    /\ userIdIsString \in BOOLEAN
    /\ cloud = AssetsOf(videos)
    /\ proc = [p \in Procs |-> Idle]
    /\ snap = NoSnapshot
    /\ watch = NoWatch
    /\ flips = <<>>

NextComments ==
    \/ \E u \in Users, v \in {"v1", "v2", InvalidId}, c \in CommentContents :
          addComment("p1", u, v, c)
    \/ \E u \in Users, c \in {"c1", "c2", "c3", InvalidId}, n \in CommentContents :
          updateComment("p1", u, c, n)
    \/ \E u \in Users, c \in {"c1", "c2", "c3", InvalidId} : deleteComment("p1", u, c)
    \/ \E u \in Users, v \in {"v1", "v2", InvalidId} : deleteVideo("p1", u, v)
    \/ Return("p1")

SpecComments == InitComments /\ [][NextComments]_vars

\* ------------------------------------------------------------------------
\* createPlaylist, updatePlaylist (playlist.controller)
\* ------------------------------------------------------------------------

\* A playlist as Playlist.create stores it: no member, and the version key
\* (__v) that mongoose gives a document at 0.
PlaylistDoc(owner, name, description) ==
    [owner |-> owner, name |-> name, description |-> description, videos |-> <<>>,
     version |-> 0]

\* The Playlist collection accepts every insert and update: the handlers
\* and the design name no index on (name, owner).
PlaylistWriteRejected(coll, id, owner, name) == FALSE

\* Playlist.findOne({name: name.trim(), owner: req.user._id}).
PlaylistsNamed(coll, name, owner) ==
    {l \in DOMAIN coll : coll[l].name = name /\ coll[l].owner = owner}

\* The request arrives; name and description are validated before the query.
createPlaylist(p, user, name, description) ==
    /\ proc[p].pc = "idle"
    /\ proc' = [proc EXCEPT ![p] =
            IF Blank(name) \/ Blank(description)
            THEN [Idle EXCEPT !.pc = "done", !.op = "createPlaylist",
                              !.user = user,
                              !.res = [NoResponse EXCEPT !.status = 400]]
            ELSE [Idle EXCEPT !.pc = "findPlaylist", !.op = "createPlaylist",
                              !.user = user, !.arg = <<name, description>>]]
    /\ UNCHANGED <<videos, comments, tweets, likes, playlists, userIdIsString,
                   cloud, snap, watch, flips>>

\* await Playlist.findOne(...): 400 when the owner has a playlist of the name.
CreatePlaylistFind(p) ==
    /\ proc[p].pc = "findPlaylist"
    /\ IF PlaylistsNamed(playlists, Trim(proc[p].arg[1]), proc[p].user) # {}
       THEN Respond(p, 400, FALSE, 0)
       ELSE proc' = [proc EXCEPT ![p].pc = "createPlaylist"]
    /\ UNCHANGED <<videos, comments, tweets, likes, playlists, userIdIsString,
                   cloud, snap, watch, flips>>

\* await Playlist.create({name: name.trim(), description: description.trim(),
\* videos: [], owner: req.user._id}).
CreatePlaylistCreate(p) ==
    /\ proc[p].pc = "createPlaylist"
    /\ PlaylistIds \ DOMAIN playlists # {}
    /\ LET id == FreshId(<<"l1", "l2", "l3">>, playlists)
           name == Trim(proc[p].arg[1])
       IN  IF PlaylistWriteRejected(playlists, id, proc[p].user, name)
           THEN /\ Respond(p, 500, FALSE, 0)
                /\ UNCHANGED playlists
           ELSE /\ playlists' = Insert(playlists, id,
                                       PlaylistDoc(proc[p].user, name,
                                                   Trim(proc[p].arg[2])))
                /\ proc' = [proc EXCEPT ![p].pc = "done", ![p].target = id,
                                ![p].res = [NoResponse EXCEPT !.status = 201]]
    /\ UNCHANGED <<videos, comments, tweets, likes, userIdIsString, cloud, snap,
                   watch, flips>>

\* updatePlaylist: one query, Playlist.findByIdAndUpdate({_id: playlistId,
\* owner: req.user._id}, {$set: updateFields}).  findByIdAndUpdate takes its
\* first argument as the id: the object is cast to its _id and the owner
\* condition is not part of the filter.  The name is not compared with the
\* owner's other playlists.
updatePlaylist(p, user, playlistId, name, description) ==
    /\ proc[p].pc = "idle"
    /\ LET status ==
               CASE playlistId = InvalidId -> 400
                 [] Blank(name) /\ Blank(description) -> 400
                 [] playlistId \notin DOMAIN playlists -> 404
                 [] ~Blank(name) /\
                    PlaylistWriteRejected(playlists, playlistId,
                                          playlists[playlistId].owner, Trim(name)) -> 500
                 [] OTHER -> 200
       IN  /\ playlists' =
                 IF status = 200
                 THEN [playlists EXCEPT
                         ![playlistId].name = IF Blank(name) THEN @ ELSE Trim(name),
                         ![playlistId].description =
                             IF Blank(description) THEN @ ELSE Trim(description)]
                 ELSE playlists
           /\ proc' = [proc EXCEPT ![p] =
                   [Idle EXCEPT !.pc = "done", !.op = "updatePlaylist",
                                !.user = user, !.target = playlistId,
                                !.res = [NoResponse EXCEPT !.status = status]]]
    /\ UNCHANGED <<videos, comments, tweets, likes, userIdIsString, cloud, snap,
                   watch, flips>>

\* ------------------------------------------------------------------------
\* addVideoToPlaylist, removeVideoFromPlaylist, deletePlaylist,
\* getPlaylistById (playlist.controller)
\* ------------------------------------------------------------------------

\* A request of the client for the playlist, arrived and validated.
PlaylistRequest(p, op, user, playlistId, arg, valid, next) ==
    /\ proc[p].pc = "idle"
    /\ proc' = [proc EXCEPT ![p] =
            IF valid
            THEN [Idle EXCEPT !.pc = next, !.op = op, !.user = user,
                              !.kind = "playlist", !.target = playlistId,
                              !.arg = arg]
            ELSE [Idle EXCEPT !.pc = "done", !.op = op, !.user = user,
                              !.kind = "playlist", !.target = playlistId,
                              !.arg = arg,
                              !.res = [NoResponse EXCEPT !.status = 400]]]
    /\ UNCHANGED <<videos, comments, tweets, likes, playlists, userIdIsString,
                   cloud, snap, watch, flips>>

\* playlist.videos.includes(videoId).
Includes(members, videoId) == \E i \in DOMAIN members : members[i] = videoId

\* {$addToSet: {videos: videoId}}.
AddToSet(members, videoId) ==
    IF Includes(members, videoId) THEN members ELSE Append(members, videoId)

\* playlist.videos.filter((id) => id.toString() !== videoId).
Without(members, videoId) == SelectSeq(members, LAMBDA id : id # videoId)

\* The request arrives; both identifiers are validated before any query.
addVideoToPlaylist(p, user, videoId, playlistId) ==
    PlaylistRequest(p, "addVideoToPlaylist", user, playlistId, <<videoId>>,
                    videoId # InvalidId /\ playlistId # InvalidId,
                    "addFindPlaylist")

\* await Playlist.findById(playlistId): 404 when it is not stored, 403 when
\* the requester is not its owner; the handler keeps the document it read.
AddVideoToPlaylistFindPlaylist(p) ==
    /\ proc[p].pc = "addFindPlaylist"
    /\ IF proc[p].target \notin DOMAIN playlists
       THEN Respond(p, 404, FALSE, 0)
       ELSE IF NotOwner(playlists[proc[p].target], proc[p].user)
       THEN Respond(p, 403, FALSE, 0)
       ELSE proc' = [proc EXCEPT ![p].pc = "addFindVideo",
                         ![p].arg = <<proc[p].arg[1],
                                      playlists[proc[p].target].videos>>]
    /\ UNCHANGED <<videos, comments, tweets, likes, playlists, userIdIsString,
                   cloud, snap, watch, flips>>

\* await Video.findById(videoId): 404 when it is not stored, 400 when it is
\* not published, 400 when the playlist that was read has it as a member.
AddVideoToPlaylistFindVideo(p) ==
    /\ proc[p].pc = "addFindVideo"
    /\ IF proc[p].arg[1] \notin DOMAIN videos
       THEN Respond(p, 404, FALSE, 0)
       ELSE IF ~videos[proc[p].arg[1]].isPublished
       THEN Respond(p, 400, FALSE, 0)
       ELSE IF Includes(proc[p].arg[2], proc[p].arg[1])
       THEN Respond(p, 400, FALSE, 0)
       ELSE proc' = [proc EXCEPT ![p].pc = "addUpdate"]
    /\ UNCHANGED <<videos, comments, tweets, likes, playlists, userIdIsString,
                   cloud, snap, watch, flips>>

\* await Playlist.findByIdAndUpdate(playlistId, {$addToSet: ...}): the
\* result is not looked at, the answer is 200.
AddVideoToPlaylistUpdate(p) ==
    /\ proc[p].pc = "addUpdate"
    /\ playlists' =
          IF proc[p].target \in DOMAIN playlists
          THEN [playlists EXCEPT ![proc[p].target].videos =
                                     AddToSet(@, proc[p].arg[1])]
          ELSE playlists
    /\ Respond(p, 200, FALSE, 0)
    /\ UNCHANGED <<videos, comments, tweets, likes, userIdIsString, cloud, snap,
                   watch, flips>>

removeVideoFromPlaylist(p, user, videoId, playlistId) ==
    /\ playlistId \in DOMAIN playlists => playlists[playlistId].version < MaxVersion
    /\ PlaylistRequest(p, "removeVideoFromPlaylist", user, playlistId,
                       <<videoId>>,
                       videoId # InvalidId /\ playlistId # InvalidId,
                       "removeFindPlaylist")

\* await Playlist.findById(playlistId): 404, 403, and 404 when the video is
\* not a member; else playlist.videos is set to the list without it.
RemoveVideoFromPlaylistFind(p) ==
    /\ proc[p].pc = "removeFindPlaylist"
    /\ IF proc[p].target \notin DOMAIN playlists
       THEN Respond(p, 404, FALSE, 0)
       ELSE IF NotOwner(playlists[proc[p].target], proc[p].user)
       THEN Respond(p, 403, FALSE, 0)
       ELSE IF ~Includes(playlists[proc[p].target].videos, proc[p].arg[1])
       THEN Respond(p, 404, FALSE, 0)
       ELSE proc' = [proc EXCEPT ![p].pc = "removeSave",
                         ![p].arg = <<proc[p].arg[1],
                                      Without(playlists[proc[p].target].videos,
                                              proc[p].arg[1]),
                                      playlists[proc[p].target].version>>]
    /\ UNCHANGED <<videos, comments, tweets, likes, playlists, userIdIsString,
                   cloud, snap, watch, flips>>

\* await playlist.save(): the array that was assigned is written as a whole
\* where the version key is the one that was read, and the key is raised;
\* the save of a document that is gone or of another version is rejected.
RemoveVideoFromPlaylistSave(p) ==
    /\ proc[p].pc = "removeSave"
    /\ IF /\ proc[p].target \in DOMAIN playlists
          /\ playlists[proc[p].target].version = proc[p].arg[3]
       THEN /\ playlists' = [playlists EXCEPT
                                ![proc[p].target].videos = proc[p].arg[2],
                                ![proc[p].target].version = @ + 1]
            /\ Respond(p, 200, FALSE, 0)
       ELSE /\ Respond(p, 500, FALSE, 0)
            /\ UNCHANGED playlists
    /\ UNCHANGED <<videos, comments, tweets, likes, userIdIsString, cloud, snap,
                   watch, flips>>

deletePlaylist(p, user, playlistId) ==
    PlaylistRequest(p, "deletePlaylist", user, playlistId, <<>>,
                    playlistId # InvalidId, "deleteFindPlaylist")

\* await Playlist.findById(playlistId): 404 when it is not stored.
DeletePlaylistFind(p) ==
    /\ proc[p].pc = "deleteFindPlaylist"
    /\ IF proc[p].target \notin DOMAIN playlists
       THEN Respond(p, 404, FALSE, 0)
       ELSE proc' = [proc EXCEPT ![p].pc = "deletePlaylist"]
    /\ UNCHANGED <<videos, comments, tweets, likes, playlists, userIdIsString,
                   cloud, snap, watch, flips>>

\* await Playlist.findByIdAndDelete({_id: playlistId, owner: req.user._id}):
\* findByIdAndDelete takes its argument as the id, the object is cast to its
\* _id and the owner condition is not part of the filter; 404 when no
\* document of the id is stored.
DeletePlaylistDelete(p) ==
    /\ proc[p].pc = "deletePlaylist"
    /\ IF proc[p].target \in DOMAIN playlists
       THEN /\ playlists' = Remove(playlists, proc[p].target)
            /\ Respond(p, 200, FALSE, 0)
       ELSE /\ Respond(p, 404, FALSE, 0)
            /\ UNCHANGED playlists
    /\ UNCHANGED <<videos, comments, tweets, likes, userIdIsString, cloud, snap,
                   watch, flips>>

\* getPlaylistById: one query, Playlist.findById(playlistId).populate(
\* "videos", ...): the members that are stored videos, in the order of the
\* list; populate has no condition on the video.
Populated(members) == SelectSeq(members, LAMBDA id : id \in DOMAIN videos)

getPlaylistById(p, playlistId) ==
    /\ proc[p].pc = "idle"
    /\ LET status ==
               CASE playlistId = InvalidId -> 400
                 [] playlistId \notin DOMAIN playlists -> 404
                 [] OTHER -> 200
       IN  proc' = [proc EXCEPT ![p] =
               [Idle EXCEPT !.pc = "done", !.op = "getPlaylistById",
                            !.kind = "playlist", !.target = playlistId,
                            !.res = [NoResponse EXCEPT
                                       !.status = status,
                                       !.items =
                                           IF status = 200
                                           THEN Populated(playlists[playlistId].videos)
                                           ELSE <<>>]]]
    /\ UNCHANGED <<videos, comments, tweets, likes, playlists, userIdIsString,
                   cloud, snap, watch, flips>>

\* ------------------------------------------------------------------------
\* The playlist handlers under concurrent clients
\* ------------------------------------------------------------------------

PlaylistNames == {Null, <<Space>>, <<"a">>, <<Space, "a">>, <<"b">>}

InitPlaylists ==
    /\ videos = <<>>
    /\ comments = <<>>
    /\ tweets = {}
    /\ likes = {}
    /\ playlists = <<>>
    /\ userIdIsString = FALSE
    /\ cloud = AssetsOf(videos)
    /\ proc = [p \in Procs |-> Idle]
    /\ snap = NoSnapshot
    /\ watch = NoWatch
    /\ flips = <<>>

NextPlaylists ==
    \E p \in Procs :
        \/ \E u \in {"u1", "u2"}, n \in PlaylistNames, d \in {Null, <<"a">>} :
              createPlaylist(p, u, n, d)
        \/ CreatePlaylistFind(p)
        \/ CreatePlaylistCreate(p)
        \/ \E u \in {"u1", "u2"}, l \in PlaylistIds \cup {InvalidId},
              n \in PlaylistNames, d \in {Null, <<"a">>} :
              updatePlaylist(p, u, l, n, d)
        \/ Return(p)

SpecPlaylists == InitPlaylists /\ [][NextPlaylists]_vars

\* ------------------------------------------------------------------------
\* The members of playlists under concurrent clients; the owner of a video
\* unpublishes or deletes it while no other request is in flight
\* ------------------------------------------------------------------------

\* Two published videos of user u1 and an empty playlist of u1.
InitMembers ==
    /\ videos = [v \in {"v1", "v2"} |-> StoredVideo("u1", v)]
    /\ comments = <<>>
    /\ tweets = {}
    /\ likes = {}
    /\ playlists = [l \in {"l1"} |-> PlaylistDoc("u1", <<"a">>, <<"a">>)]
    /\ userIdIsString = FALSE
    /\ cloud = AssetsOf(videos)
    /\ proc = [p \in Procs |-> Idle]
    /\ snap = NoSnapshot
    /\ watch = NoWatch
    /\ flips = <<>>

\* Client p1 sends every request; client p2 sends the owner's add of video
\* v1 to the playlist, which runs while a request of p1 is in flight.
NextMembers ==
    \/ \E u \in {"u1", "u2"}, v \in {"v1", "v2", InvalidId},
          l \in {"l1", InvalidId} : addVideoToPlaylist("p1", u, v, l)
    \/ addVideoToPlaylist("p2", "u1", "v1", "l1")
    \/ \E u \in {"u1", "u2"}, v \in {"v1", "v2", InvalidId},
          l \in {"l1", InvalidId} : removeVideoFromPlaylist("p1", u, v, l)
    \/ \E u \in {"u1", "u2"}, l \in {"l1", InvalidId} : deletePlaylist("p1", u, l)
    \/ \E u \in {"u1", "u2"}, l \in {"l1", InvalidId}, n \in {Null, <<"b">>} :
          updatePlaylist("p1", u, l, n, Null)
    \/ \E l \in {"l1", InvalidId} : getPlaylistById("p1", l)
    \/ \E v \in {"v1", "v2"} : togglePublishStatus("p1", "u1", v)
    \/ \E v \in {"v1", "v2"} : deleteVideo("p1", "u1", v)
    \/ \E p \in Procs :
          \/ AddVideoToPlaylistFindPlaylist(p)
          \/ AddVideoToPlaylistFindVideo(p)
          \/ AddVideoToPlaylistUpdate(p)
          \/ RemoveVideoFromPlaylistFind(p)
          \/ RemoveVideoFromPlaylistSave(p)
          \/ DeletePlaylistFind(p)
          \/ DeletePlaylistDelete(p)
          \/ Return(p)

SpecMembers == InitMembers /\ [][NextMembers]_vars

\* ------------------------------------------------------------------------
\* The claims about the like toggles
\* ------------------------------------------------------------------------

\* The toggle of client p has answered.
ToggleDone(p) == proc[p].op = "toggleLike" /\ proc[p].pc = "done"

\* The toggle of client p names a stored target.
OnStoredTarget(p) ==
    proc[p].target # InvalidId /\ TargetExists(proc[p].kind, proc[p].target)

\* C1: two successive toggles by a user on a stored target, with no other
\* toggle on the target in between, leave the pair in the state and the
\* target with the like count they had before the first toggle; when the
\* pair was not liked before the first, the second reports isLiked = false.
C1_DoubleToggleRestores ==
    \A p \in Procs :
        (ToggleDone(p) /\ watch.calls = 2) =>
            /\ Liked(likes, watch.kind, watch.target, watch.user) = watch.preLiked
            /\ CountLikes(likes, watch.kind, watch.target) = watch.preCount
            /\ (~watch.preLiked =>
                    proc[p].res.status = 200 /\ ~proc[p].res.isLiked)

\* C2: a toggle by a user who has no like on a stored target succeeds,
\* reports isLiked = true and a total of the previous count plus one, which
\* is the count of the stored likes of the target; the same holds of the
\* toggle of a second user that follows, whatever the first user's state.
C2_ToggleAddsOne ==
    \A p \in Procs :
        (/\ ToggleDone(p)
         /\ OnStoredTarget(p)
         /\ ~Liked(snap.likes, proc[p].kind, proc[p].target, proc[p].user)) =>
            /\ proc[p].res.status = 200
            /\ proc[p].res.isLiked
            /\ proc[p].res.totalLikes =
                   CountLikes(snap.likes, proc[p].kind, proc[p].target) + 1
            /\ CountLikes(likes, proc[p].kind, proc[p].target) =
                   CountLikes(snap.likes, proc[p].kind, proc[p].target) + 1

\* C3: the like state is kept per (target, likedBy): a toggle by a user on a
\* stored target T2 that the user has not liked ends with the pair liked,
\* whatever the user's state on any other target T1, and leaves the state of
\* every (T1, user) as it was.
C3_PairsIndependent ==
    \A p \in Procs :
        (/\ ToggleDone(p)
         /\ OnStoredTarget(p)
         /\ ~Liked(snap.likes, proc[p].kind, proc[p].target, proc[p].user)) =>
            /\ proc[p].res.status = 200
            /\ Liked(likes, proc[p].kind, proc[p].target, proc[p].user)
            /\ \A k \in Kinds : \A t \in IdsOfKind(k) :
                   <<k, t>> # <<proc[p].kind, proc[p].target>> =>
                       Liked(likes, k, t, proc[p].user) =
                           Liked(snap.likes, k, t, proc[p].user)

\* C4: under any interleaving of toggles there is at most one like document
\* for each (target, likedBy) pair, of a video, a comment or a tweet.
C4_OneLikePerPair ==
    \A k \in Kinds : \A t \in IdsOfKind(k) : \A u \in Users :
        Cardinality(LikesOfPair(likes, k, t, u)) <= 1

\* Two toggles of the same comment by the same user were in flight together,
\* the insert of one was rejected, and the pair has its one like.
C4_Witness ==
    \E p \in Procs : \E q \in Procs \ {p} :
        /\ PairOf(p) = PairOf(q)
        /\ proc[p].kind = "comment"
        /\ ToggleDone(p) /\ proc[p].res.status = 500
        /\ proc[q].pc = "countLiked"
        /\ Cardinality(LikesOfPair(likes, proc[p].kind, proc[p].target,
                                   proc[p].user)) = 1

\* C5: an insert that the store rejects because a concurrent toggle of the
\* same pair inserted first is caught and treated as already liked: the
\* toggle does not end in a server error.
C5_RejectedInsertCaught ==
    [][\A p \in Procs :
          (/\ proc[p].pc = "create"
           /\ Liked(likes, proc[p].kind, proc[p].target, proc[p].user)
           /\ proc'[p].pc = "done") => proc'[p].res.status # 500]_vars

\* C6: concurrent toggles of a pair are equivalent to a serial order of
\* them: when none is in flight, the state of the pair is its initial state
\* (not liked) flipped once per toggle that returned success.
C6_TogglesSerializable ==
    \A pr \in DOMAIN flips :
        (\A p \in Procs : PairOf(p) = pr => proc[p].pc = "done") =>
            (Liked(likes, pr[1], pr[2], pr[3]) <=> flips[pr] = 1)

\* C7: a toggle whose target is not stored ends with 404 and leaves the set
\* of like documents as it was before the call.
C7_MissingTargetNoChange ==
    \A p \in Procs :
        (/\ ToggleDone(p)
         /\ proc[p].target # InvalidId
         /\ ~TargetExists(proc[p].kind, proc[p].target)) =>
            proc[p].res.status = 404 /\ likes = snap.likes

\* A toggle of a comment that is not stored has answered 404 while likes
\* are stored.
C7_Witness ==
    \E p \in Procs :
        /\ ToggleDone(p)
        /\ proc[p].kind = "comment"
        /\ ~TargetExists(proc[p].kind, proc[p].target)
        /\ proc[p].res.status = 404
        /\ Cardinality(likes) >= 2

\* ------------------------------------------------------------------------
\* The claims about the comment handlers
\* ------------------------------------------------------------------------

\* C8: deleteComment of a stored comment succeeds and removes the comment
\* for the owner of the comment and for the owner of its parent video, and
\* for every other identity fails with 403 and leaves the comment stored.
C8_DeleteCommentTwoOwnerRule ==
    \A p \in Procs :
        (/\ proc[p].op = "deleteComment"
         /\ proc[p].pc = "done"
         /\ proc[p].target \in DOMAIN snap.comments) =>
            LET comment == snap.comments[proc[p].target]
                allowed ==
                    \/ comment.owner = proc[p].user
                    \/ /\ comment.video \in DOMAIN snap.videos
                       /\ snap.videos[comment.video].owner = proc[p].user
            IN  IF allowed
                THEN proc[p].res.status = 200 /\ proc[p].target \notin DOMAIN comments
                ELSE proc[p].res.status = 403 /\ proc[p].target \in DOMAIN comments

\* ------------------------------------------------------------------------
\* The claims about the video handlers
\* ------------------------------------------------------------------------

\* C9: after any sequence of publishAVideo, togglePublishStatus, updateVideo
\* and like toggles, every video that getAllVideos, getVideoById or
\* getLikedVideos returns is published, and getVideoById of an unpublished
\* video answers 404 and leaves the view counts as they were.
C9_UnpublishedNeverReturned ==
    \A p \in Procs :
        (proc[p].pc = "done" /\
         proc[p].op \in {"getAllVideos", "getVideoById", "getLikedVideos"}) =>
            /\ \A i \in 1 .. Len(proc[p].res.items) :
                   /\ proc[p].res.items[i] \in DOMAIN videos
                   /\ videos[proc[p].res.items[i]].isPublished
            /\ (/\ proc[p].op = "getVideoById"
                /\ proc[p].target \in DOMAIN snap.videos
                /\ ~snap.videos[proc[p].target].isPublished) =>
                   proc[p].res.status = 404 /\ videos = snap.videos

\* getLikedVideos has returned the one published video of two that the
\* user likes; the other has been viewed and then unpublished.
C9_Witness ==
    \E p \in Procs :
        /\ proc[p].pc = "done"
        /\ proc[p].op = "getLikedVideos"
        /\ Len(proc[p].res.items) = 1
        /\ \E v \in DOMAIN videos :
               /\ ~videos[v].isPublished
               /\ videos[v].views > 0
               /\ Liked(likes, "video", v, proc[p].user)

\* The step in which the request of client p answers.
Answers(p) == proc[p].pc # "done" /\ proc'[p].pc = "done"

\* The handlers that change or remove a video.
VideoMutators == {"updateVideo", "deleteVideo", "togglePublishStatus"}

\* C13: an updateVideo, deleteVideo or togglePublishStatus for a stored
\* video by a user who is not its owner answers 403, leaves the video
\* stored with its title, description, thumbnail and publication flag, and
\* makes no call to the media service, whose assets stay as they were.
C13_VideoMutatedByOwnerOnly ==
    \A p \in Procs :
        (/\ proc[p].pc = "done"
         /\ proc[p].op \in VideoMutators
         /\ proc[p].target \in DOMAIN snap.videos
         /\ snap.videos[proc[p].target].owner # proc[p].user) =>
            /\ proc[p].res.status = 403
            /\ proc[p].target \in DOMAIN videos
            /\ LET now == videos[proc[p].target]
                   before == snap.videos[proc[p].target]
               IN  /\ now.title = before.title
                   /\ now.description = before.description
                   /\ now.thumbnail = before.thumbnail
                   /\ now.isPublished = before.isPublished
            /\ proc[p].media = <<>>
            /\ cloud = snap.cloud

\* A user who is not the owner has been refused the deletion of a video
\* whose owner had replaced its thumbnail and unpublished it.
C13_Witness ==
    \E p \in Procs :
        /\ proc[p].pc = "done"
        /\ proc[p].op = "deleteVideo"
        /\ proc[p].res.status = 403
        /\ proc[p].target \in DOMAIN videos
        /\ videos[proc[p].target].owner # proc[p].user
        /\ videos[proc[p].target].thumbnail[3] = 2
        /\ ~videos[proc[p].target].isPublished

\* C16: whenever publishAVideo reports failure, no asset that it uploaded
\* is stored on the media service and no video record has been added; so
\* after a video upload that succeeded and a thumbnail upload that failed
\* the uploaded video asset is deleted before the failure is reported.
C16_FailedPublishLeavesNothing ==
    \A p \in Procs :
        (/\ proc[p].pc = "done"
         /\ proc[p].op = "publishAVideo"
         /\ proc[p].res.status # 201) =>
            /\ videos = snap.videos
            /\ \A i \in DOMAIN proc[p].media :
                   proc[p].media[i][1] = "upload" =>
                       proc[p].media[i][2] \notin cloud

\* C14: every stored comment has content that is not empty after trimming;
\* an addComment or updateComment whose content is missing, empty or only
\* whitespace answers 400 and leaves the comments as they were; and an
\* updateComment by a user who is not the comment's owner leaves the
\* comments as they were.
C14_CommentContentNotBlank ==
    /\ \A c \in DOMAIN comments : Trim(comments[c].content) # <<>>
    /\ \A p \in Procs :
           (proc[p].pc = "done" /\ proc[p].op \in {"addComment", "updateComment"}) =>
               /\ (proc[p].arg[1] = Null \/ Trim(proc[p].arg[1]) = <<>>) =>
                      proc[p].res.status = 400 /\ comments = snap.comments
               /\ (/\ proc[p].op = "updateComment"
                   /\ proc[p].target \in DOMAIN snap.comments
                   /\ snap.comments[proc[p].target].owner # proc[p].user) =>
                      comments = snap.comments

\* The owner of a stored comment, whose content begins with a space, has
\* been refused an update whose content is only whitespace.
C14_Witness ==
    \E p \in Procs :
        /\ proc[p].pc = "done"
        /\ proc[p].op = "updateComment"
        /\ proc[p].target \in DOMAIN comments
        /\ comments[proc[p].target].owner = proc[p].user
        /\ comments[proc[p].target].content = <<Space, "a">>
        /\ proc[p].arg[1] = <<Space>>
        /\ proc[p].res.status = 400

\* The paginated listings.
Listings == {"getAllVideos", "getVideoComments", "getLikedVideos"}

\* The number a listing is to take for a value of page or limit: the
\* number sent, the default for a missing value or one that is no number.
Coerced(raw, default) == IF raw.kind = "number" THEN raw.value ELSE default

\* C15: a listing whose identifiers are valid answers without error; its
\* totalItems is the size of the filtered set, its totalPages is
\* ceil(totalItems / limit), it returns at most limit items, which are the
\* page-th slice of the sorted filtered set, and none for a page beyond the
\* last; a missing or non-numeric page or limit is taken as 1 and as 10.
C15_PagesOfListings ==
    \A p \in Procs :
        (/\ proc[p].pc = "done"
         /\ proc[p].op \in Listings
         /\ proc[p].target # InvalidId) =>
            LET page == Coerced(proc[p].arg[1], 1)
                limit == Coerced(proc[p].arg[2], 10)
                all == proc[p].arg[3]
                items == proc[p].res.items
                paging == proc[p].res.paging
            IN  /\ proc[p].res.status = 200
                /\ paging.totalDocs = Len(all)
                /\ paging.totalPages = Ceiling(Len(all), limit)
                /\ Len(items) <= limit
                /\ \A i \in 1 .. Len(all) :
                       ((page - 1) * limit < i /\ i <= page * limit) =>
                           /\ i - (page - 1) * limit <= Len(items)
                           /\ items[i - (page - 1) * limit] = all[i]
                /\ Len(items) <= Len(all) - (page - 1) * limit \/ items = <<>>
                /\ page > paging.totalPages => items = <<>>

\* C17: the step in which a getVideoById answers with success raises the
\* stored view count of the video by exactly 1, whatever requests run at
\* the same time, and leaves the title, the description and the
\* publication flag that a concurrent update of the owner has written.
C17_EveryFetchCountsOneView ==
    [][\A p \in Procs :
          (/\ Answers(p)
           /\ proc'[p].op = "getVideoById"
           /\ proc'[p].res.status = 200) =>
              /\ proc[p].target \in DOMAIN videos
              /\ proc[p].target \in DOMAIN videos'
              /\ LET before == videos[proc[p].target]
                     after == videos'[proc[p].target]
                 IN  /\ after.views = before.views + 1
                     /\ after.title = before.title
                     /\ after.description = before.description
                     /\ after.isPublished = before.isPublished]_vars

\* ------------------------------------------------------------------------
\* The claims about the playlist handlers
\* ------------------------------------------------------------------------

\* C10: after any sequence and any interleaving of createPlaylist and
\* updatePlaylist, no two playlists of one owner have the same name; a
\* createPlaylist that answered 201 made the only playlist of its owner
\* with its name.
C10_NameUniquePerOwner ==
    \A a \in DOMAIN playlists : \A b \in DOMAIN playlists :
        (a # b /\ playlists[a].owner = playlists[b].owner) =>
            playlists[a].name # playlists[b].name

\* The request of client p that answers in the step is the handler's, for a
\* stored playlist.
AnswersOnPlaylist(p, ops) ==
    /\ Answers(p)
    /\ proc'[p].op \in ops
    /\ proc'[p].target \in DOMAIN playlists

\* C11: an addVideoToPlaylist by the owner of the playlist, of a published
\* video that is a member when the request answers, answers with a client
\* error and leaves the playlists as they were, also when another add of
\* the video runs at the same time; a removeVideoFromPlaylist by the owner
\* of a video that is not a member answers with an error and leaves the
\* playlists as they were; and no member list holds a video twice.
C11_DuplicateAddRejected ==
    /\ [](\A l \in DOMAIN playlists :
             \A i, j \in DOMAIN playlists[l].videos :
                 i # j => playlists[l].videos[i] # playlists[l].videos[j])
    /\ [][\A p \in Procs :
             /\ (/\ AnswersOnPlaylist(p, {"addVideoToPlaylist"})
                 /\ playlists[proc'[p].target].owner = proc'[p].user
                 /\ proc'[p].arg[1] \in DOMAIN videos
                 /\ videos[proc'[p].arg[1]].isPublished
                 /\ Includes(playlists[proc'[p].target].videos, proc'[p].arg[1])) =>
                    /\ proc'[p].res.status \in 400 .. 499
                    /\ playlists' = playlists
             /\ (/\ AnswersOnPlaylist(p, {"removeVideoFromPlaylist"})
                 /\ playlists[proc'[p].target].owner = proc'[p].user
                 /\ ~Includes(playlists[proc'[p].target].videos, proc'[p].arg[1])) =>
                    /\ proc'[p].res.status >= 400
                    /\ playlists' = playlists]_vars

\* The handlers that change a playlist.
PlaylistMutators ==
    {"addVideoToPlaylist", "removeVideoFromPlaylist", "updatePlaylist",
     "deletePlaylist"}

\* C12: a request of addVideoToPlaylist, removeVideoFromPlaylist,
\* updatePlaylist or deletePlaylist for a stored playlist by a user who is
\* not its owner answers with an error, and every step that changes or
\* removes a playlist is a step of a request of the playlist's owner.
C12_PlaylistMutatedByOwnerOnly ==
    [][/\ \A p \in Procs :
             (/\ AnswersOnPlaylist(p, PlaylistMutators)
              /\ playlists[proc'[p].target].owner # proc'[p].user) =>
                 proc'[p].res.status >= 400
       /\ \A l \in DOMAIN playlists :
             (l \notin DOMAIN playlists' \/ playlists'[l] # playlists[l]) =>
                 \E p \in Procs :
                     /\ proc'[p] # proc[p]
                     /\ proc'[p].user = playlists[l].owner]_vars

\* C18: every video that a getPlaylistById returns in the populated member
\* list is published when the playlist is fetched.
C18_FetchedMembersPublished ==
    \A p \in Procs :
        (proc[p].pc = "done" /\ proc[p].op = "getPlaylistById") =>
            \A i \in 1 .. Len(proc[p].res.items) :
                /\ proc[p].res.items[i] \in DOMAIN videos
                /\ videos[proc[p].res.items[i]].isPublished

====
